---- MODULE Spec2Model ----
(***************************************************************************)
(* Model of the paper-classification adapters:                             *)
(*   - ScopusDatasetReader          (CSV rows, title + abstract + labels)  *)
(*   - ScopusAbstractDatasetReader  (CSV rows, abstract + labels)          *)
(*   - SemanticScholarDatasetReader (database documents, venue label)      *)
(*   - PaperClassifierPredictor     (JSON request -> instance, label names)*)
(*                                                                         *)
(* Text is a sequence of one-character strings, so that tokenization and   *)
(* int() are computed rather than assumed.  A Python Optional value is a   *)
(* sequence of length at most one: <<>> is None, <<v>> is the value v.     *)
(***************************************************************************)
EXTENDS Integers, Sequences, FiniteSets, TLC

VARIABLES
    active,       \* adapter the driver exercises: "none" until it picks one
    ttiReader,    \* reader whose text_to_instance is called directly
    ttiArgs,      \* arguments of that call
    ttiResult,    \* <<>> before the call, <<result>> after it
    csvReader,    \* reader whose _read generator is running
    csvFile,      \* rows csv.reader delivers, header first
    csvPos,       \* number of rows consumed from csvFile
    csvPc,        \* "init", "iter", "done" (StopIteration) or "raised"
    csvYielded,   \* instances handed to the caller so far, in order
    dbDocs,       \* documents papers.find() returns, in storage order
    dbPos,        \* number of documents consumed
    dbPc,         \* "init", "iter", "done" or "raised"
    dbYielded,    \* instances handed to the caller so far, in order
    prReader,     \* the predictor's self._dataset_reader
    prRequest,    \* json_dict of the prediction request
    prModels,     \* model (vocabulary) state at each call so far
    prOuts        \* outcome of each _json_to_instance call so far

vars == <<active, ttiReader, ttiArgs, ttiResult,
          csvReader, csvFile, csvPos, csvPc, csvYielded,
          dbDocs, dbPos, dbPc, dbYielded,
          prReader, prRequest, prModels, prOuts>>

ttiVars == <<ttiReader, ttiArgs, ttiResult>>
csvVars == <<csvReader, csvFile, csvPos, csvPc, csvYielded>>
dbVars  == <<dbDocs, dbPos, dbPc, dbYielded>>
prVars  == <<prReader, prRequest, prModels, prOuts>>

----------------------------------------------------------------------------
(* Bounds of the model.                                                    *)

\* longest label sequence passed to text_to_instance directly
MaxLabels == 5
\* most data rows (after the header) in a CSV file
MaxRows == 3
\* most documents returned by the collection
MaxDocs == 3
\* most _json_to_instance calls made with one request
MaxCalls == 2

----------------------------------------------------------------------------
(* Python values.                                                          *)

None == <<>>
Some(v) == <<v>>

\* a Python int and a Python str, as they appear in a label sequence
PyIntVal(n) == [t |-> "int", i |-> n]
PyStrVal(s) == [t |-> "str", s |-> s]

Digits == <<"0", "1", "2", "3", "4", "5", "6", "7", "8", "9">>

IsDigit(c) == \E i \in 1..Len(Digits) : Digits[i] = c

DigitValue(c) == (CHOOSE i \in 1..Len(Digits) : Digits[i] = c) - 1

IsSpace(c) == c = " "

RECURSIVE LStrip(_)
LStrip(s) ==
    IF s # <<>> /\ IsSpace(Head(s)) THEN LStrip(Tail(s)) ELSE s

RECURSIVE RStrip(_)
RStrip(s) ==
    IF s # <<>> /\ IsSpace(s[Len(s)]) THEN RStrip(SubSeq(s, 1, Len(s) - 1)) ELSE s

Strip(s) == RStrip(LStrip(s))

RECURSIVE DecimalValue(_)
DecimalValue(ds) ==
    IF ds = <<>> THEN 0
    ELSE 10 * DecimalValue(SubSeq(ds, 1, Len(ds) - 1)) + DigitValue(ds[Len(ds)])

IsDecimal(ds) == ds # <<>> /\ \A i \in 1..Len(ds) : IsDigit(ds[i])

HasSign(s) == s # <<>> /\ Head(s) \in {"+", "-"}

Unsigned(s) == IF HasSign(s) THEN Tail(s) ELSE s

\* int(x) succeeds
IntCoercible(x) ==
    \/ x.t = "int"
    \/ x.t = "str" /\ IsDecimal(Unsigned(Strip(x.s)))

\* int(x), for x with IntCoercible(x)
PyInt(x) ==
    IF x.t = "int" THEN x.i
    ELSE LET s == Strip(x.s)
             n == DecimalValue(Unsigned(s))
         IN  IF HasSign(s) /\ Head(s) = "-" THEN 0 - n ELSE n

\* mutant of Falsy: `if labels is None`
FalsyNoneOnly(labelsOpt) == labelsOpt = None

\* truth value of an Optional[List]: `not labels` holds for None and for []
Falsy(labelsOpt) == labelsOpt = None \/ labelsOpt[1] = <<>>

----------------------------------------------------------------------------
(* Framework objects the readers construct.                                *)

\* split text on whitespace, dropping empty words
RECURSIVE SplitWords(_, _, _)
SplitWords(text, word, words) ==
    IF text = <<>>
    THEN IF word = <<>> THEN words ELSE Append(words, word)
    ELSE IF IsSpace(Head(text))
         THEN SplitWords(Tail(text), <<>>,
                         IF word = <<>> THEN words ELSE Append(words, word))
         ELSE SplitWords(Tail(text), Append(word, Head(text)), words)

Tokenize(text) == SplitWords(text, <<>>, <<>>)

TextField(tokens) == [tokens |-> tokens, indexers |-> "tokens"]

LabelField(label, skip) == [label |-> label, skip_indexing |-> skip]

ListField(fieldList) == fieldList

Instance(fields) == fields

Returned(inst) == [status |-> "ok", instance |-> inst]

Raised(err) == [status |-> err]

ZeroLabels == <<PyIntVal(0), PyIntVal(0), PyIntVal(0), PyIntVal(0)>>

\* the ListField of four LabelFields, after int() of each value
CoercedLabels(fields, values) ==
    IF \E i \in 1..Len(values) : ~IntCoercible(values[i])
    THEN Raised("ValueError")
    ELSE Returned(Instance(fields @@
            ("labels" :> [i \in 1..Len(values) |-> LabelField(PyInt(values[i]), TRUE)])))

\* mutant of AddLabels: the ListField lacks the social_sciences entry
AddLabelsThree(fields, labelsOpt) ==
    LET labels == IF labelsOpt = None \/ labelsOpt[1] = <<>> THEN ZeroLabels
                  ELSE labelsOpt[1]
    IN  IF Len(labels) # 4 THEN Raised("ValueError")
        ELSE CoercedLabels(fields, <<labels[1], labels[2], labels[3]>>)

\* mutant of AddLabels: life_sciences and physical_sciences change places
AddLabelsSwapped(fields, labelsOpt) ==
    LET labels == IF labelsOpt = None \/ labelsOpt[1] = <<>> THEN ZeroLabels
                  ELSE labelsOpt[1]
    IN  IF Len(labels) # 4 THEN Raised("ValueError")
        ELSE CoercedLabels(fields, <<labels[1], labels[3], labels[2], labels[4]>>)

\* mutant of AddLabels: the first four values are taken, the rest ignored
AddLabelsFirstFour(fields, labelsOpt) ==
    LET labels == IF labelsOpt = None \/ labelsOpt[1] = <<>> THEN ZeroLabels
                  ELSE labelsOpt[1]
    IN  IF Len(labels) < 4 THEN Raised("ValueError")
        ELSE CoercedLabels(fields, SubSeq(labels, 1, 4))

\* the shared tail of both CSV readers' text_to_instance: default, destructure,
\* coerce, build the ListField
AddLabels(fields, labelsOpt) ==
    LET labels == IF Falsy(labelsOpt) THEN ZeroLabels ELSE labelsOpt[1]
    IN  IF Len(labels) # 4
        THEN Raised("ValueError")
        ELSE LET health_sciences   == labels[1]
                 life_sciences     == labels[2]
                 physical_sciences == labels[3]
                 social_sciences   == labels[4]
             IN  IF \E x \in {health_sciences, life_sciences,
                              physical_sciences, social_sciences} :
                        ~IntCoercible(x)
                 THEN Raised("ValueError")
                 ELSE Returned(Instance(fields @@
                        ("labels" :> ListField(<<
                            LabelField(PyInt(health_sciences), TRUE),
                            LabelField(PyInt(life_sciences), TRUE),
                            LabelField(PyInt(physical_sciences), TRUE),
                            LabelField(PyInt(social_sciences), TRUE)>>))))

\* ScopusDatasetReader.text_to_instance(title, abstract, labels=None)
ScopusTextToInstance(title, abstract, labelsOpt) ==
    LET title_field    == TextField(Tokenize(title))
        abstract_field == TextField(Tokenize(abstract))
        fields == ("title" :> title_field) @@ ("abstract" :> abstract_field)
    IN  AddLabels(fields, labelsOpt)

\* mutant of AbstractTextToInstance: a title field is built as well
AbstractTextToInstanceTitled(abstract, labelsOpt) ==
    ScopusTextToInstance(abstract, abstract, labelsOpt)

\* ScopusAbstractDatasetReader.text_to_instance(abstract, labels=None)
AbstractTextToInstance(abstract, labelsOpt) ==
    LET abstract_field == TextField(Tokenize(abstract))
        fields == ("abstract" :> abstract_field)
    IN  AddLabels(fields, labelsOpt)

\* mutant of S2TextToInstance: `if venue:` drops the label of an empty venue
S2TextToInstanceTruthy(title, abstract, venueOpt) ==
    LET fields == ("title" :> TextField(Tokenize(title)))
                  @@ ("abstract" :> TextField(Tokenize(abstract)))
    IN  IF venueOpt # None /\ venueOpt[1] # ""
        THEN Returned(Instance(fields @@ ("label" :> LabelField(venueOpt[1], FALSE))))
        ELSE Returned(Instance(fields))

\* SemanticScholarDatasetReader.text_to_instance(title, abstract, venue=None)
S2TextToInstance(title, abstract, venueOpt) ==
    LET title_field    == TextField(Tokenize(title))
        abstract_field == TextField(Tokenize(abstract))
        fields == ("title" :> title_field) @@ ("abstract" :> abstract_field)
    IN  IF venueOpt # None
        THEN Returned(Instance(fields @@ ("label" :> LabelField(venueOpt[1], FALSE))))
        ELSE Returned(Instance(fields))

----------------------------------------------------------------------------
(* Inputs.                                                                 *)

A1 == <<"a", " ", "b">>
A2 == <<" ", "c", " ", " ", "d", " ">>
T1 == <<"t">>
T2 == <<"u", " ", "v">>
U1 == <<"x">>

Texts == {A1, T2}

SeqsUpTo(S, n) == UNION {[1..k -> S] : k \in 0..n}

\* values a caller may put in a label sequence: ints, and strs as csv delivers
LabelValues ==
    {PyIntVal(0), PyIntVal(1), PyIntVal(2), PyStrVal(<<"1">>), PyStrVal(<<"x">>)}

LabelArgs == {None} \cup {Some(ls) : ls \in SeqsUpTo(LabelValues, MaxLabels)}

\* rows csv.reader can deliver: every prefix of a nine-column row, and rows of
\* seven and eight columns with other label cells
FullRow ==
    <<A1, U1, T1, <<"1">>, <<"0">>, <<"1">>, <<"0">>, <<"1">>, <<"1">> >>

OtherRows ==
    { <<A2, U1, T2, <<"0">>, <<"2">>, <<"0">>, <<"1">>, <<"x">> >>,
      <<A1, U1, T2, <<"x">>, <<" ", "1">>, <<"0">>, <<"-", "1">>, <<"1">> >> }

Rows == {SubSeq(FullRow, 1, n) : n \in 0..Len(FullRow)}
        \cup {SubSeq(r, 1, n) : r \in OtherRows, n \in {7, 8}}

HeaderRows == { <<>>, <<<<"a">>, <<"b">>, <<"t">>, <<"h">> >> }

Files == {<<>>} \cup {<<h>> \o rs : h \in HeaderRows, rs \in SeqsUpTo(Rows, MaxRows)}

\* documents of the collection: a mapping from some of the keys to values;
\* a venue is a str or null
FullDocs ==
    { [title |-> t, paperAbstract |-> A1, venue |-> v] :
        t \in {T1, T2}, v \in {None, Some("ACL"), Some("")} }

Docs == FullDocs
        \cup { <<>>,
               [title |-> T1, paperAbstract |-> A1],
               [paperAbstract |-> A2, venue |-> Some("AI")] }

DocLists == SeqsUpTo(Docs, MaxDocs)

\* prediction requests: title and abstract, either of which may be missing
Requests ==
    { [title |-> t, abstract |-> a] : t \in Texts, a \in Texts }
    \cup { [title |-> t] : t \in Texts }
    \cup { [abstract |-> a] : a \in Texts }
    \cup { <<>> }

\* model states: the vocabulary's index-to-token map of each namespace
ModelStates ==
    { [labels |-> <<>>],
      [labels |-> <<"ACL", "AI">>],
      [labels |-> <<"social_sciences", "physical_sciences",
                    "life_sciences", "health_sciences">>] }

CsvReaders == {"scopus", "scopusAbstract"}

Readers == {"scopus", "scopusAbstract", "s2_papers"}

----------------------------------------------------------------------------
(* text_to_instance called directly.                                       *)

CallScopusTextToInstance ==
    /\ active = "none"
    /\ \E title \in Texts, abstract \in Texts, labelsOpt \in LabelArgs :
        /\ active' = "tti"
        /\ ttiReader' = "scopus"
        /\ ttiArgs' = [title |-> Some(title), abstract |-> abstract,
                       labels |-> labelsOpt]
        /\ ttiResult' = Some(ScopusTextToInstance(title, abstract, labelsOpt))
    /\ UNCHANGED <<csvVars, dbVars, prVars>>

CallAbstractTextToInstance ==
    /\ active = "none"
    /\ \E abstract \in Texts, labelsOpt \in LabelArgs :
        /\ active' = "tti"
        /\ ttiReader' = "scopusAbstract"
        /\ ttiArgs' = [title |-> None, abstract |-> abstract, labels |-> labelsOpt]
        /\ ttiResult' = Some(AbstractTextToInstance(abstract, labelsOpt))
    /\ UNCHANGED <<csvVars, dbVars, prVars>>

----------------------------------------------------------------------------
(* The CSV readers' _read generators.                                      *)

\* the str cells of a row from column `first` on, as a list of str
CellsFrom(row, first) ==
    [i \in 1..(Len(row) - first + 1) |-> PyStrVal(row[i + first - 1])]

\* mutant of ScopusRow: a short row is padded with empty cells
ScopusRowPadded(row) ==
    LET padded == IF Len(row) < 3
                  THEN row \o [i \in 1..(3 - Len(row)) |-> <<>>]
                  ELSE row
    IN  ScopusTextToInstance(padded[3], padded[1], Some(CellsFrom(padded, 4)))

\* loop body of ScopusDatasetReader._read
\*   abstract, _, title, *labels = row
ScopusRow(row) ==
    IF Len(row) < 3
    THEN Raised("ValueError")
    ELSE LET abstract == row[1]
             title    == row[3]
             labels   == CellsFrom(row, 4)
         IN  ScopusTextToInstance(title, abstract, Some(labels))

\* loop body of ScopusAbstractDatasetReader._read
\*   abstract, _, _, title, *labels = row
AbstractRow(row) ==
    IF Len(row) < 4
    THEN Raised("ValueError")
    ELSE LET abstract == row[1]
             title    == row[4]
             labels   == CellsFrom(row, 5)
         IN  AbstractTextToInstance(abstract, Some(labels))

RowToInstance(reader, row) ==
    IF reader = "scopus" THEN ScopusRow(row) ELSE AbstractRow(row)

\* mutant of SkipHeader: the header row is iterated like the others
KeepHeader(file) == 0

\* next(reader, None): the header is consumed if there is one
SkipHeader(file) == IF Len(file) >= 1 THEN 1 ELSE 0

\* the driver calls reader._read(file_path): a generator over the file's rows
CsvRead ==
    /\ active = "none"
    /\ active' = "csv"
    /\ csvReader' \in CsvReaders
    /\ csvFile' \in Files
    /\ csvPos' = 0
    /\ csvPc' = "init"
    /\ csvYielded' = <<>>
    /\ UNCHANGED <<ttiVars, dbVars, prVars>>

\* the driver pulls the next instance: the generator runs to its next yield,
\* to the end of the file, or to the exception that ends it
CsvNext ==
    /\ active = "csv"
    /\ csvPc \in {"init", "iter"}
    /\ LET pos == IF csvPc = "init" THEN SkipHeader(csvFile) ELSE csvPos
       IN  IF pos >= Len(csvFile)
           THEN /\ csvPc' = "done"
                /\ csvPos' = pos
                /\ UNCHANGED csvYielded
           ELSE LET r == RowToInstance(csvReader, csvFile[pos + 1])
                IN  /\ csvPos' = pos + 1
                    /\ IF r.status = "ok"
                       THEN /\ csvPc' = "iter"
                            /\ csvYielded' = Append(csvYielded, r.instance)
                       ELSE /\ csvPc' = "raised"
                            /\ UNCHANGED csvYielded
    /\ UNCHANGED <<active, csvReader, csvFile, ttiVars, dbVars, prVars>>

----------------------------------------------------------------------------
(* The database-backed reader's _read generator.                           *)

\* `not line`: a mapping with no keys
EmptyDoc(line) == DOMAIN line = {}

\* index of the first non-empty document after position pos, or Len(docs) + 1
RECURSIVE NextNonEmpty(_, _)
NextNonEmpty(docs, pos) ==
    IF pos >= Len(docs) THEN Len(docs) + 1
    ELSE IF EmptyDoc(docs[pos + 1]) THEN NextNonEmpty(docs, pos + 1)
    ELSE pos + 1

\* loop body of SemanticScholarDatasetReader._read for a non-empty document
S2Doc(line) ==
    IF "title" \notin DOMAIN line THEN Raised("KeyError")
    ELSE IF "paperAbstract" \notin DOMAIN line THEN Raised("KeyError")
    ELSE IF "venue" \notin DOMAIN line THEN Raised("KeyError")
    ELSE LET title    == line["title"]
             abstract == line["paperAbstract"]
             venue    == line["venue"]
         IN  S2TextToInstance(title, abstract, venue)

\* the driver calls reader._read(): a generator over papers.find()
DbRead ==
    /\ active = "none"
    /\ active' = "db"
    /\ dbDocs' \in DocLists
    /\ dbPos' = 0
    /\ dbPc' = "init"
    /\ dbYielded' = <<>>
    /\ UNCHANGED <<ttiVars, csvVars, prVars>>

DbNext ==
    /\ active = "db"
    /\ dbPc \in {"init", "iter"}
    /\ LET n == NextNonEmpty(dbDocs, dbPos)
       IN  IF n > Len(dbDocs)
           THEN /\ dbPc' = "done"
                /\ dbPos' = Len(dbDocs)
                /\ UNCHANGED dbYielded
           ELSE LET r == S2Doc(dbDocs[n])
                IN  /\ dbPos' = n
                    /\ IF r.status = "ok"
                       THEN /\ dbPc' = "iter"
                            /\ dbYielded' = Append(dbYielded, r.instance)
                       ELSE /\ dbPc' = "raised"
                            /\ UNCHANGED dbYielded
    /\ UNCHANGED <<active, dbDocs, ttiVars, csvVars, prVars>>

----------------------------------------------------------------------------
(* The prediction adapter.                                                 *)

LabelNames ==
    <<"health_sciences", "life_sciences", "physical_sciences", "social_sciences">>

\* self._model.vocab.get_index_to_token_vocabulary(namespace)
GetIndexToTokenVocabulary(model, namespace) == model[namespace]

\* mutant of ReaderTextToInstance: title and abstract change places
ReaderTextToInstanceSwapped(reader, title, abstract) ==
    CASE reader = "scopus"         -> ScopusTextToInstance(abstract, title, None)
      [] reader = "s2_papers"      -> S2TextToInstance(abstract, title, None)
      [] reader = "scopusAbstract" -> Raised("TypeError")

\* self._dataset_reader.text_to_instance(title=title, abstract=abstract)
ReaderTextToInstance(reader, title, abstract) ==
    CASE reader = "scopus"         -> ScopusTextToInstance(title, abstract, None)
      [] reader = "s2_papers"      -> S2TextToInstance(title, abstract, None)
      [] reader = "scopusAbstract" -> Raised("TypeError")

\* mutant of JsonToInstance: the label names are read from the vocabulary
JsonToInstanceVocabulary(reader, model, json_dict) ==
    IF ~({"title", "abstract"} \subseteq DOMAIN json_dict) THEN Raised("KeyError")
    ELSE LET r == IF reader = "scopus"
                  THEN ScopusTextToInstance(json_dict["title"], json_dict["abstract"], None)
                  ELSE IF reader = "s2_papers"
                  THEN S2TextToInstance(json_dict["title"], json_dict["abstract"], None)
                  ELSE Raised("TypeError")
         IN  IF r.status # "ok" THEN r
             ELSE [status |-> "ok", instance |-> r.instance,
                   extra |-> [labels |-> model["labels"]]]

\* PaperClassifierPredictor._json_to_instance
JsonToInstance(reader, model, json_dict) ==
    IF "title" \notin DOMAIN json_dict THEN Raised("KeyError")
    ELSE IF "abstract" \notin DOMAIN json_dict THEN Raised("KeyError")
    ELSE LET title    == json_dict["title"]
             abstract == json_dict["abstract"]
             r        == ReaderTextToInstance(reader, title, abstract)
             label_dict == GetIndexToTokenVocabulary(model, "labels")
         IN  IF r.status # "ok" THEN r
             ELSE [status |-> "ok", instance |-> r.instance,
                   extra |-> [labels |-> LabelNames]]

\* the first _json_to_instance call of a predictor built around `reader`
Predict ==
    /\ active = "none"
    /\ active' = "predict"
    /\ \E reader \in Readers, model \in ModelStates, json_dict \in Requests :
        /\ prReader' = reader
        /\ prRequest' = json_dict
        /\ prModels' = <<model>>
        /\ prOuts' = <<JsonToInstance(reader, model, json_dict)>>
    /\ UNCHANGED <<ttiVars, csvVars, dbVars>>

\* the same request again, the model being in whatever state it is in by then
PredictAgain ==
    /\ active = "predict"
    /\ Len(prOuts) < MaxCalls
    /\ \E model \in ModelStates :
        /\ prModels' = Append(prModels, model)
        /\ prOuts' = Append(prOuts, JsonToInstance(prReader, model, prRequest))
    /\ UNCHANGED <<active, prReader, prRequest, ttiVars, csvVars, dbVars>>

----------------------------------------------------------------------------
(* The system: readers and predictor constructed, nothing called yet.  The *)
(* adapters share no state, so a behaviour exercises one of them.          *)

Init ==
    /\ active = "none"
    /\ ttiReader = "scopus"
    /\ ttiArgs = [title |-> None, abstract |-> <<>>, labels |-> None]
    /\ ttiResult = None
    /\ csvReader = "scopus"
    /\ csvFile = <<>>
    /\ csvPos = 0
    /\ csvPc = "init"
    /\ csvYielded = <<>>
    /\ dbDocs = <<>>
    /\ dbPos = 0
    /\ dbPc = "init"
    /\ dbYielded = <<>>
    /\ prReader = "scopus"
    /\ prRequest = <<>>
    /\ prModels = <<>>
    /\ prOuts = <<>>

Next ==
    \/ CallScopusTextToInstance
    \/ CallAbstractTextToInstance
    \/ CsvRead
    \/ CsvNext
    \/ DbRead
    \/ DbNext
    \/ Predict
    \/ PredictAgain

Spec == Init /\ [][Next]_vars

----------------------------------------------------------------------------
(* Vocabulary of the properties.                                           *)

\* a direct text_to_instance call has returned an instance
TtiReturned == active = "tti" /\ ttiResult # None /\ ttiResult[1].status = "ok"

TtiInstance == ttiResult[1].instance

\* the integers held by an instance's `labels` field
LabelInts(inst) == [i \in 1..Len(inst["labels"]) |-> inst["labels"][i].label]

\* the k-th yielded instance comes from the k-th data row, row k + 1 of the file
RowOf(k) == csvFile[k + 1]

\* the label cells the running CSV reader takes from a row
LabelCells(reader, row) == CellsFrom(row, IF reader = "scopus" THEN 4 ELSE 5)

\* the row holds the text columns the reader unpacks and no label column
NoLabelColumns(reader, row) == Len(row) = (IF reader = "scopus" THEN 3 ELSE 4)

FourEntries(inst) == "labels" \in DOMAIN inst /\ Len(inst["labels"]) = 4

AllBinary(inst) == \A i \in 1..Len(inst["labels"]) : inst["labels"][i].label \in {0, 1}

AllIntegers(inst) == \A i \in 1..Len(inst["labels"]) : inst["labels"][i].label \in Int

\* every given label value is 0 or 1 once coerced (or no label is given)
BinaryInput(labelsOpt) ==
    \/ labelsOpt = None
    \/ \A i \in 1..Len(labelsOpt[1]) :
          IntCoercible(labelsOpt[1][i]) /\ PyInt(labelsOpt[1][i]) \in {0, 1}

----------------------------------------------------------------------------
(* C2 *)

\* C2 as stated: in every Example produced by either CSV reader (by _read or
\* by text_to_instance) the labels sequence has exactly 4 entries, each 0 or 1.
C2_LabelsFourBinary ==
    /\ TtiReturned => FourEntries(TtiInstance) /\ AllBinary(TtiInstance)
    /\ \A k \in 1..Len(csvYielded) :
          FourEntries(csvYielded[k]) /\ AllBinary(csvYielded[k])

\* C2 amended: the labels sequence has exactly 4 entries, each an integer;
\* every entry is 0 or 1 whenever the label values given are 0 or 1 (or none
\* are given).  Other integers pass through unchanged.
C2_LabelsFourIntegers ==
    /\ TtiReturned =>
          /\ FourEntries(TtiInstance)
          /\ AllIntegers(TtiInstance)
          /\ BinaryInput(ttiArgs.labels) => AllBinary(TtiInstance)
    /\ \A k \in 1..Len(csvYielded) :
          /\ FourEntries(csvYielded[k])
          /\ AllIntegers(csvYielded[k])
          /\ BinaryInput(Some(LabelCells(csvReader, RowOf(k))))
                => AllBinary(csvYielded[k])

\* a yielded Example carries a label outside {0,1}, taken from its row
C2_Witness ==
    /\ active = "csv"
    /\ \E k \in 1..Len(csvYielded) :
          /\ Len(LabelCells(csvReader, RowOf(k))) = 4
          /\ ~AllBinary(csvYielded[k])

----------------------------------------------------------------------------
(* C3 *)

\* C3: for a sequence of exactly 4 integer-coercible label values passed to
\* text_to_instance of either CSV reader, the call returns and position i of
\* the labels vector is int(input[i]), i = 1..4; [1,0,1,0] yields [1,0,1,0].
C3_LabelsCoercedInOrder ==
    (/\ active = "tti"
     /\ ttiArgs.labels # None
     /\ Len(ttiArgs.labels[1]) = 4
     /\ \A i \in 1..4 : IntCoercible(ttiArgs.labels[1][i]))
    => /\ TtiReturned
       /\ Len(TtiInstance["labels"]) = 4
       /\ \A i \in 1..4 :
             /\ TtiInstance["labels"][i].label = PyInt(ttiArgs.labels[1][i])
             /\ TtiInstance["labels"][i].skip_indexing
       /\ ttiArgs.labels[1] = <<PyIntVal(1), PyIntVal(0), PyIntVal(1), PyIntVal(0)>>
             => LabelInts(TtiInstance) = <<1, 0, 1, 0>>
       /\ ttiArgs.labels[1] = <<PyStrVal(<<"1">>), PyIntVal(2), PyIntVal(0), PyIntVal(1)>>
             => LabelInts(TtiInstance) = <<1, 2, 0, 1>>

\* the abstract-only reader returned for four values, a str among them, that
\* differ by position
C3_Witness ==
    /\ TtiReturned
    /\ ttiReader = "scopusAbstract"
    /\ ttiArgs.labels = Some(<<PyStrVal(<<"1">>), PyIntVal(2), PyIntVal(0), PyIntVal(1)>>)

----------------------------------------------------------------------------
(* C4 *)

\* C4: text_to_instance called with labels absent or empty, and a row with
\* zero label columns, give an Example whose labels vector is [0,0,0,0].
C4_NoLabelsGiveZeros ==
    /\ (active = "tti" /\ (ttiArgs.labels = None \/ ttiArgs.labels = Some(<<>>)))
          => TtiReturned /\ LabelInts(TtiInstance) = <<0, 0, 0, 0>>
    /\ (active = "csv" /\ csvPos >= 2 /\ NoLabelColumns(csvReader, csvFile[csvPos]))
          => /\ csvPc # "raised"
             /\ Len(csvYielded) = csvPos - 1
             /\ LabelInts(csvYielded[csvPos - 1]) = <<0, 0, 0, 0>>
    /\ \A k \in 1..Len(csvYielded) :
          NoLabelColumns(csvReader, RowOf(k))
             => LabelInts(csvYielded[k]) = <<0, 0, 0, 0>>

\* the abstract-only reader yielded for a four-column row
C4_Witness ==
    /\ active = "csv"
    /\ csvReader = "scopusAbstract"
    /\ \E k \in 1..Len(csvYielded) :
          Len(RowOf(k)) = 4 /\ LabelInts(csvYielded[k]) = <<0, 0, 0, 0>>

----------------------------------------------------------------------------
(* C5, C6 *)

\* the Example the title+abstract reader is to build from a well-formed row:
\* abstract from column 0, title from column 2, labels from columns 3 onward
ExpectedScopus(row) ==
    [title    |-> TextField(Tokenize(row[3])),
     abstract |-> TextField(Tokenize(row[1])),
     labels   |-> IF Len(row) = 3
                  THEN [i \in 1..4 |-> LabelField(0, TRUE)]
                  ELSE [i \in 1..4 |-> LabelField(PyInt(PyStrVal(row[i + 3])), TRUE)]]

\* three text columns, then no label column or four integer ones
WellFormedScopus(row) ==
    /\ Len(row) \in {3, 7}
    /\ \A i \in 4..Len(row) : IntCoercible(PyStrVal(row[i]))

\* C5: while the title+abstract reader iterates a file, a data row with fewer
\* than 3 columns makes the read raise at that row: nothing is yielded for it
\* or for any later row, and the Examples of all earlier rows have been
\* yielded in row order.
C5_ShortRowRaises ==
    (active = "csv" /\ csvReader = "scopus")
    => \A j \in 2..csvPos :
          Len(csvFile[j]) < 3
          => /\ csvPc = "raised"
             /\ csvPos = j
             /\ Len(csvYielded) = j - 2
             /\ \A k \in 1..(j - 2) : csvYielded[k] = ExpectedScopus(RowOf(k))

\* the read raised at a short third data row after yielding for the two before
C5_Witness ==
    /\ active = "csv"
    /\ csvReader = "scopus"
    /\ csvPc = "raised"
    /\ csvPos >= 3
    /\ Len(csvFile[csvPos]) < 3
    /\ Len(csvYielded) = csvPos - 2
    /\ Len(csvFile) > csvPos

\* C6: for a file of n >= 1 rows whose rows after the first are well-formed,
\* the title+abstract reader never raises and, once exhausted, has yielded
\* exactly n-1 Examples, the k-th built from row k+1; the header row yields
\* nothing, and an empty file yields nothing without error.
C6_OneExamplePerDataRow ==
    (/\ active = "csv"
     /\ csvReader = "scopus"
     /\ \A j \in 2..Len(csvFile) : WellFormedScopus(csvFile[j]))
    => /\ csvPc # "raised"
       /\ Len(csvYielded) = (IF csvPos = 0 THEN 0 ELSE csvPos - 1)
       /\ \A k \in 1..Len(csvYielded) : csvYielded[k] = ExpectedScopus(RowOf(k))
       /\ csvPc = "done"
          => /\ csvPos = Len(csvFile)
             /\ Len(csvYielded) = (IF Len(csvFile) = 0 THEN 0 ELSE Len(csvFile) - 1)

\* a file of a header and two well-formed rows, with and without label
\* columns, has been read to its end
C6_Witness ==
    /\ active = "csv"
    /\ csvReader = "scopus"
    /\ csvPc = "done"
    /\ Len(csvFile) = 3
    /\ Len(csvFile[1]) > 0
    /\ Len(csvFile[2]) = 7
    /\ Len(csvFile[3]) = 3
    /\ Len(csvYielded) = 2

----------------------------------------------------------------------------
(* C9 *)

\* C9: every Example of the abstract-only reader has exactly the fields
\* abstract and labels, never title, and its abstract is built from column 0
\* of the row (from the abstract argument, for a direct call).
C9_AbstractOnlyFields ==
    /\ (TtiReturned /\ ttiReader = "scopusAbstract")
          => /\ DOMAIN TtiInstance = {"abstract", "labels"}
             /\ TtiInstance["abstract"] = TextField(Tokenize(ttiArgs.abstract))
    /\ (active = "csv" /\ csvReader = "scopusAbstract")
          => \A k \in 1..Len(csvYielded) :
                /\ DOMAIN csvYielded[k] = {"abstract", "labels"}
                /\ csvYielded[k]["abstract"] = TextField(Tokenize(RowOf(k)[1]))

\* the abstract-only reader yielded for a row whose title column is not empty
C9_Witness ==
    /\ active = "csv"
    /\ csvReader = "scopusAbstract"
    /\ \E k \in 1..Len(csvYielded) :
          /\ Len(RowOf(k)) = 8
          /\ RowOf(k)[4] # <<>>
          /\ RowOf(k)[1] # RowOf(k)[4]

----------------------------------------------------------------------------
(* C10 *)

OtherReader(reader) == IF reader = "scopus" THEN "scopusAbstract" ELSE "scopus"

AcceptedWidths(reader) == IF reader = "scopus" THEN {3, 7} ELSE {4, 8}

\* C10: the label mapping raises, and produces no Example, for a label
\* sequence of a length other than 0 or 4; so the title+abstract reader yields
\* only for rows of 3 or 7 columns, the abstract-only reader only for rows of
\* 4 or 8 columns, and a row one reader yields for makes the other raise.
C10_LabelCountChecked ==
    /\ (active = "tti" /\ ttiArgs.labels # None
           /\ Len(ttiArgs.labels[1]) \notin {0, 4})
          => ttiResult[1].status = "ValueError"
    /\ active = "csv"
          => /\ \A k \in 1..Len(csvYielded) :
                   /\ Len(RowOf(k)) \in AcceptedWidths(csvReader)
                   /\ RowToInstance(OtherReader(csvReader), RowOf(k)).status # "ok"
             /\ \A j \in 2..csvPos :
                   Len(csvFile[j]) \notin AcceptedWidths(csvReader)
                   => csvPc = "raised" /\ csvPos = j /\ Len(csvYielded) = j - 2

\* a direct call with five integer labels raised
C10_Witness ==
    /\ active = "tti"
    /\ ttiArgs.labels # None
    /\ Len(ttiArgs.labels[1]) = 5
    /\ \A i \in 1..5 : IntCoercible(ttiArgs.labels[1][i])
    /\ ttiResult[1].status = "ValueError"

----------------------------------------------------------------------------
(* C8 *)

DocKeys == {"title", "paperAbstract", "venue"}

\* the Example the database-backed reader is to build from a document
ExpectedS2(doc) ==
    IF doc["venue"] = None
    THEN [title    |-> TextField(Tokenize(doc["title"])),
          abstract |-> TextField(Tokenize(doc["paperAbstract"]))]
    ELSE [title    |-> TextField(Tokenize(doc["title"])),
          abstract |-> TextField(Tokenize(doc["paperAbstract"])),
          label    |-> [label |-> doc["venue"][1], skip_indexing |-> FALSE]]

\* the Examples of the non-empty documents among the first n, in order
RECURSIVE ExpectedS2Yield(_, _)
ExpectedS2Yield(docs, n) ==
    IF n = 0 THEN <<>>
    ELSE IF DOMAIN docs[n] = {} THEN ExpectedS2Yield(docs, n - 1)
    ELSE Append(ExpectedS2Yield(docs, n - 1), ExpectedS2(docs[n]))

\* C8: the database-backed reader yields one Example per non-empty document
\* (a mapping with title, paperAbstract and venue), in storage order, skips
\* empty documents without yielding or raising; each Example has title and
\* abstract, and a label exactly when the venue is not null, the label being
\* the raw venue string.
C8_OneExamplePerDocument ==
    (/\ active = "db"
     /\ \A i \in 1..Len(dbDocs) : DOMAIN dbDocs[i] \in {{}, DocKeys})
    => /\ dbPc # "raised"
       /\ dbYielded = ExpectedS2Yield(dbDocs, dbPos)
       /\ dbPc = "done" => dbPos = Len(dbDocs)
       /\ \A k \in 1..Len(dbYielded) :
             {"title", "abstract"} \subseteq DOMAIN dbYielded[k]

\* a collection of an empty document, one with a null venue and one with a
\* venue has been read to its end
C8_Witness ==
    /\ active = "db"
    /\ dbPc = "done"
    /\ Len(dbDocs) = 3
    /\ DOMAIN dbDocs[1] = {}
    /\ DOMAIN dbDocs[2] = DocKeys /\ dbDocs[2]["venue"] = None
    /\ DOMAIN dbDocs[3] = DocKeys /\ dbDocs[3]["venue"] = Some("ACL")
    /\ Len(dbYielded) = 2
    /\ "label" \notin DOMAIN dbYielded[1]
    /\ dbYielded[2]["label"].label = "ACL"

----------------------------------------------------------------------------
(* C1, C7 *)

HasTitleAndAbstract(req) == {"title", "abstract"} \subseteq DOMAIN req

\* C1 as stated: for a request with title and abstract, _json_to_instance
\* returns an Example with title and abstract and neither label nor labels,
\* whichever dataset reader the predictor holds.
C1_NoLabelFields ==
    \A c \in 1..Len(prOuts) :
       HasTitleAndAbstract(prRequest)
       => /\ prOuts[c].status = "ok"
          /\ {"title", "abstract"} \subseteq DOMAIN prOuts[c].instance
          /\ "label" \notin DOMAIN prOuts[c].instance
          /\ "labels" \notin DOMAIN prOuts[c].instance

\* C1 amended: for a request with title and abstract, with the database-backed
\* reader the Example has exactly title and abstract; with the title+abstract
\* CSV reader it has title, abstract and the default labels [0,0,0,0], and no
\* label; with the abstract-only CSV reader the call raises a TypeError.  The
\* title and abstract fields are the tokenized request title and abstract.
C1_FieldsByReader ==
    \A c \in 1..Len(prOuts) :
       HasTitleAndAbstract(prRequest)
       => IF prReader = "scopusAbstract"
          THEN prOuts[c].status = "TypeError"
          ELSE /\ prOuts[c].status = "ok"
               /\ prOuts[c].instance["title"] = TextField(Tokenize(prRequest["title"]))
               /\ prOuts[c].instance["abstract"] =
                     TextField(Tokenize(prRequest["abstract"]))
               /\ prReader = "s2_papers"
                     => DOMAIN prOuts[c].instance = {"title", "abstract"}
               /\ prReader = "scopus"
                     => /\ DOMAIN prOuts[c].instance = {"title", "abstract", "labels"}
                        /\ LabelInts(prOuts[c].instance) = <<0, 0, 0, 0>>

\* the predictor built around the title+abstract CSV reader returned for a
\* request whose title and abstract differ
C1_Witness ==
    /\ active = "predict"
    /\ prReader = "scopus"
    /\ HasTitleAndAbstract(prRequest)
    /\ prRequest["title"] # prRequest["abstract"]
    /\ Len(prOuts) = 1
    /\ prOuts[1].status = "ok"

\* C7: for a request with title and abstract, the label-name list returned is
\* exactly health_sciences, life_sciences, physical_sciences, social_sciences,
\* whatever the model state: calls with the same request under different
\* model states have the same outcome, and those that return (every call of a
\* predictor whose reader takes a title) return that list.
C7_LabelNamesFixed ==
    /\ \A c \in 1..Len(prOuts) :
          /\ prOuts[c].status = "ok"
                => prOuts[c].extra.labels = <<"health_sciences", "life_sciences",
                                              "physical_sciences", "social_sciences">>
          /\ (HasTitleAndAbstract(prRequest) /\ prReader # "scopusAbstract")
                => prOuts[c].status = "ok"
    /\ \A c, d \in 1..Len(prOuts) :
          /\ prOuts[c].status = prOuts[d].status
          /\ prOuts[c].status = "ok"
                => prOuts[c].extra.labels = prOuts[d].extra.labels

\* two calls with one request returned under different model states
C7_Witness ==
    /\ active = "predict"
    /\ Len(prOuts) >= 2
    /\ prModels[1] # prModels[2]
    /\ HasTitleAndAbstract(prRequest)
    /\ prOuts[1].status = "ok"
    /\ prOuts[2].status = "ok"

====
